---- MODULE Spec2Model ----
(***************************************************************************)
(* MindLink (src/src/MindLink.jsx): the local Insight engine over          *)
(* localStorage (safeGet / safeSet), the in-memory MockService post store  *)
(* and the feed the MindLink component displays.                           *)
(*                                                                         *)
(* A JavaScript call either returns a value or throws; operators that      *)
(* model a call return a completion record whose field `thrown` says       *)
(* which.  Mood values are kept as the strings a caller can pass           *)
(* ("0.7", "abc", "NaN"), tag counts as naturals, and an object's own      *)
(* properties as a sequence in insertion order (the order Object.entries   *)
(* enumerates them in).                                                    *)
(***************************************************************************)
EXTENDS Integers, Sequences, FiniteSets, TLC

VARIABLES
    storage,      \* condition of window.localStorage
    lsInsight,    \* localStorage["ml_insight_v2"]
    base,         \* Insight's closure variable `base`
    now,          \* Date.now()
    posts,        \* MockService's closure variable `posts`
    feed,         \* MindLink's state `posts` (the displayed feed)
    loading,      \* MindLink's state `loading`
    call,         \* history: the operation whose return led to this state, if one did
    opCount,      \* history: number of operations called
    raised,       \* history: some Insight operation threw to its caller
    tagTotal,     \* history: occurrences of each tag over all recordTags calls
    recorded,     \* history: every sample passed to recordMood, in order
    tagCalls,     \* history: number of recordTags calls
    alwaysOk,     \* history: localStorage has worked since the page loaded
    users,        \* MockService's closure variable `users`
    currentUser,  \* MindLink's state `currentUser`
    lsUser,       \* localStorage["ml_current_user"]
    balance,      \* WalletPanel's state `balance`
    lsWallet,     \* localStorage["ml_wallet_balance"]
    bought,       \* history: ids of the users shown as premium after a purchase
    base2,        \* `base` of the Insight of a second tab on the same storage
    pending,      \* per tab: the recordTags call between getItem and setItem
    raced         \* history: two recordTags calls have overlapped

\* The account, the wallet and the second tab.
acct == << users, currentUser, lsUser, balance, lsWallet, bought, base2,
          pending, raced >>

vars == << storage, lsInsight, base, now, posts, feed, loading,
           call, opCount, raised, tagTotal, recorded, tagCalls, alwaysOk,
           users, currentUser, lsUser, balance, lsWallet, bought, base2,
           pending, raced >>

(***************************  bounds of the model  *************************)
MaxOps == 3
MaxTicks == 1
MaxLimit == 2
MaxClicks == 4

(******************************  constants  ********************************)
MoodCap == 80
LoadTime == 100
SeedAge1 == 1
SeedAge2 == 12
SeedLikes1 == 12
SeedLikes2 == 9
DemoBalance == 10
PremiumCost == 5
TopUpAmount == 10

StorageModes == {"ok", "absent", "readThrows", "writeThrows"}
TagStrings == {"focus", "mindful", " "}
TagLists == { <<>>, <<"mindful">>, <<"focus", "focus", "mindful">>, <<" ">> }
Energies == {"0.6"}
MoodInputs == {"0.7", "abc", "NaN"}

EmptyState == [tags |-> <<>>, mood |-> <<>>, engages |-> 0]
NoItem == [kind |-> "none", val |-> EmptyState]
CorruptItem == [kind |-> "corrupt", val |-> EmptyState]

Min(a, b) == IF a < b THEN a ELSE b
Max(a, b) == IF a > b THEN a ELSE b

(*********************  JSON.stringify / JSON.parse  ***********************)
\* JSON has no NaN: JSON.stringify writes it as null.
JsonValue(v) == IF v = "NaN" THEN "null" ELSE v

JsonInsight(s) ==
    [s EXCEPT !.mood = [i \in 1..Len(s.mood) |->
                          [v |-> JsonValue(s.mood[i].v), t |-> s.mood[i].t]]]

JSONParse(item) ==
    IF item.kind = "corrupt"
    THEN [thrown |-> TRUE, val |-> EmptyState]
    ELSE [thrown |-> FALSE, val |-> item.val]

(***************************  localStorage  ********************************)
GetItem(item) ==
    IF storage = "readThrows"
    THEN [thrown |-> TRUE, item |-> NoItem]
    ELSE [thrown |-> FALSE, item |-> item]

SetItem(item, encoded) ==
    IF storage = "writeThrows"
    THEN [thrown |-> TRUE, item |-> item]
    ELSE [thrown |-> FALSE, item |-> [kind |-> "json", val |-> encoded]]

(***************************  safeGet / safeSet  ***************************)
\* `same` says that the value returned is the fallback object itself, so
\* that what the caller assigns into it is assigned into the fallback.
SafeGetNoCatch(item, fallback) ==
    IF storage = "absent"
    THEN [thrown |-> FALSE, val |-> fallback, same |-> TRUE]
    ELSE LET r == GetItem(item) IN
         IF r.thrown THEN [thrown |-> TRUE, val |-> fallback, same |-> TRUE]
         ELSE IF r.item.kind = "none"
         THEN [thrown |-> FALSE, val |-> fallback, same |-> TRUE]
         ELSE LET p == JSONParse(r.item) IN
              IF p.thrown THEN [thrown |-> TRUE, val |-> fallback, same |-> TRUE]
              ELSE [thrown |-> FALSE, val |-> p.val, same |-> FALSE]

SafeGet(item, fallback) ==
    IF storage = "absent"
    THEN [thrown |-> FALSE, val |-> fallback, same |-> TRUE]
    ELSE LET r == GetItem(item) IN
         IF r.thrown THEN [thrown |-> FALSE, val |-> fallback, same |-> TRUE]
         ELSE IF r.item.kind = "none"
         THEN [thrown |-> FALSE, val |-> fallback, same |-> TRUE]
         ELSE LET p == JSONParse(r.item) IN
              IF p.thrown THEN [thrown |-> FALSE, val |-> fallback, same |-> TRUE]
              ELSE [thrown |-> FALSE, val |-> p.val, same |-> FALSE]

SafeSetNoWrite(item, value) ==
    [thrown |-> FALSE, item |-> item]

SafeSet(item, value) ==
    IF storage = "absent"
    THEN [thrown |-> FALSE, item |-> item]
    ELSE LET w == SetItem(item, JsonInsight(value)) IN
         [thrown |-> FALSE, item |-> w.item]

(*****************************  Insight  ***********************************)
HasTag(tags, t) == \E i \in 1..Len(tags) : tags[i].k = t

CountOf(tags, t) ==
    IF HasTag(tags, t)
    THEN (CHOOSE e \in {tags[i] : i \in 1..Len(tags)} : e.k = t).n
    ELSE 0

\* s.tags[t] = (s.tags[t] || 0) + 1 : a new key is added last.
BumpOnce(tags, t) ==
    IF HasTag(tags, t) THEN tags ELSE Append(tags, [k |-> t, n |-> 1])

Bump(tags, t) ==
    IF HasTag(tags, t)
    THEN [i \in 1..Len(tags) |->
            IF tags[i].k = t THEN [k |-> t, n |-> tags[i].n + 1] ELSE tags[i]]
    ELSE Append(tags, [k |-> t, n |-> 1])

RECURSIVE BumpAll(_, _)
\* forEach that stops after the first tag
BumpFirst(tags, list) ==
    IF list = <<>> THEN tags ELSE Bump(tags, Head(list))

BumpAll(tags, list) ==
    IF list = <<>> THEN tags
    ELSE BumpAll(Bump(tags, Head(list)), Tail(list))

\* Array.prototype.sort is stable: x goes after every element that the
\* comparator does not put behind it.  The elements are [key, val] pairs,
\* sorted by descending key (the comparators are b.key - a.key).
RECURSIVE InsertDesc(_, _)
InsertDesc(sorted, x) ==
    IF sorted = <<>> THEN <<x>>
    ELSE IF Head(sorted).key >= x.key
         THEN <<Head(sorted)>> \o InsertDesc(Tail(sorted), x)
         ELSE <<x>> \o sorted

RECURSIVE SortDesc(_)
SortDesc(seq) ==
    IF seq = <<>> THEN <<>>
    ELSE InsertDesc(SortDesc(SubSeq(seq, 1, Len(seq) - 1)), seq[Len(seq)])

SortEntriesUnsorted(tags) == tags

SortEntries(tags) ==
    LET keyed == [i \in 1..Len(tags) |-> [key |-> tags[i].n, val |-> tags[i]]]
        sorted == SortDesc(keyed)
    IN [i \in 1..Len(sorted) |-> sorted[i].val]

\* Array.prototype.slice(-n): the last n elements.
LastN(seq, n) ==
    IF Len(seq) <= n THEN seq ELSE SubSeq(seq, Len(seq) - n + 1, Len(seq))

FirstN(seq, n) == SubSeq(seq, 1, Min(n, Len(seq)))

\* recordTags on closure variable b and stored item: the completion, the
\* new b and the new stored item.
RecordTagsOn(b, item, tags) ==
    LET g == SafeGet(item, b) IN
    IF g.thrown THEN [thrown |-> TRUE, base |-> b, item |-> item, s |-> b]
    ELSE LET s == [g.val EXCEPT !.tags = BumpAll(g.val.tags, tags),
                                !.engages = g.val.engages + 1]
             w == SafeSet(item, s)
         IN [thrown |-> w.thrown,
             base   |-> IF g.same THEN s ELSE b,
             item   |-> w.item,
             s      |-> s]

AppendMood(mood, v, t) == LastN(Append(mood, [v |-> v, t |-> t]), MoodCap)

RecordMoodOn(b, item, v, t) ==
    LET g == SafeGet(item, b) IN
    IF g.thrown THEN [thrown |-> TRUE, base |-> b, item |-> item, s |-> b]
    ELSE LET s == [g.val EXCEPT !.mood = AppendMood(g.val.mood, v, t)]
             w == SafeSet(item, s)
         IN [thrown |-> w.thrown,
             base   |-> IF g.same THEN s ELSE b,
             item   |-> w.item,
             s      |-> s]

SuggestOn(b, item, limit) ==
    LET g == SafeGet(item, b) IN
    IF g.thrown THEN [thrown |-> TRUE, val |-> <<>>]
    ELSE LET top == FirstN(SortEntries(g.val.tags), limit) IN
         [thrown |-> FALSE, val |-> [i \in 1..Len(top) |-> top[i].k]]

DumpOn(b, item) == SafeGet(item, b)

\* The Insight state the session observes: what dump() returns now.
Dump == DumpOn(base, lsInsight).val
Suggest(limit) == SuggestOn(base, lsInsight, limit).val

(***************************  MockService  *********************************)
\* A post identifier "p_<n>" is kept as the number n.
SeedPosts ==
    << [id |-> 1, likes |-> SeedLikes1, createdAt |-> LoadTime - SeedAge1],
       [id |-> 2, likes |-> SeedLikes2, createdAt |-> LoadTime - SeedAge2] >>

RECURSIVE Reverse(_)
Reverse(seq) ==
    IF seq = <<>> THEN <<>> ELSE Append(Reverse(Tail(seq)), Head(seq))

FetchPostsAscending(ps) ==
    LET keyed == [i \in 1..Len(ps) |-> [key |-> ps[i].createdAt, val |-> ps[i]]]
        sorted == Reverse(SortDesc(keyed))
    IN [i \in 1..Len(sorted) |-> sorted[i].val]

FetchPosts(ps) ==
    LET keyed == [i \in 1..Len(ps) |-> [key |-> ps[i].createdAt, val |-> ps[i]]]
        sorted == SortDesc(keyed)
    IN [i \in 1..Len(sorted) |-> sorted[i].val]

\* What a payload can carry in the fields createPost sets itself; 0 stands
\* for a payload without the field.
NoPayload == [id |-> 0, likes |-> 0, createdAt |-> 0]
Payloads == { NoPayload, [id |-> 1, likes |-> 7, createdAt |-> 50] }

CreatePostKeepsPayload(payload, t) ==
    IF payload = NoPayload THEN [id |-> t, likes |-> 0, createdAt |-> t]
    ELSE payload

\* { ...post, id: "p_" + Date.now(), likes: 0, createdAt: Date.now() }
CreatePost(payload, t) ==
    [payload EXCEPT !.id = t, !.likes = 0, !.createdAt = t]

NewPost(t) == [id |-> t, likes |-> 0, createdAt |-> t]

LikeIn(ps, id) ==
    [i \in 1..Len(ps) |->
        IF ps[i].id = id THEN [ps[i] EXCEPT !.likes = @ + 1] ELSE ps[i]]

(***************************  Composer.submit  *****************************)
RawTagTexts == { <<" ">>, <<" focus", "mindful ", "">> }

\* String.prototype.trim on the segments the model enters.
Trim(r) ==
    CASE r = " focus"   -> "focus"
      [] r = "mindful " -> "mindful"
      [] r = " "        -> ""
      [] r = " you"     -> "you"
      [] OTHER          -> r

RECURSIVE FilterBoolean(_)
FilterBoolean(list) ==
    IF list = <<>> THEN <<>>
    ELSE IF Head(list) = "" THEN FilterBoolean(Tail(list))
         ELSE <<Head(list)>> \o FilterBoolean(Tail(list))

TagListNoFilter(segments) == [i \in 1..Len(segments) |-> Trim(segments[i])]

TagList(segments) ==
    FilterBoolean([i \in 1..Len(segments) |-> Trim(segments[i])])

(*******************************  history  *********************************)
RECURSIVE Occurrences(_, _)
Occurrences(list, t) ==
    IF list = <<>> THEN 0
    ELSE (IF Head(list) = t THEN 1 ELSE 0) + Occurrences(Tail(list), t)

AllTags == TagStrings \cup {""}

Counted(total, list) ==
    [t \in AllTags |-> total[t] + Occurrences(list, t)]

NoCall == [op |-> "none", tags |-> <<>>, v |-> "", limit |-> 0, ret |-> <<>>]

CallOf(op) == [NoCall EXCEPT !.op = op]

(*******************************  two tabs  ********************************)
Tabs == {1, 2}
NotPending == [busy |-> FALSE, item |-> NoItem, tags |-> <<>>]

(**************************  MockService: users  ***************************)
\* A user, without the display name and the avatar letter.
SeedUsers ==
    << [id |-> "u_you", username |-> "you", premium |-> FALSE, streak |-> 2],
       [id |-> "u_ava", username |-> "ava", premium |-> TRUE,  streak |-> 8],
       [id |-> "u_rui", username |-> "rui", premium |-> FALSE, streak |-> 0] >>

\* null where a user is expected
NoUser == [id |-> "", username |-> "", premium |-> FALSE, streak |-> 0]

Usernames == {"you", "neo", ""}
Displays == {"", "Neo"}
TypedNames == {"you", " you", "ava", "neo", " "}

HasUser(us, username) == \E i \in 1..Len(us) : us[i].username = username

\* users.find((u) => u.username === username) || null
GetUserByUsername(us, username) ==
    IF HasUser(us, username)
    THEN us[CHOOSE i \in 1..Len(us) :
                /\ us[i].username = username
                /\ \A j \in 1..(i - 1) : us[j].username # username]
    ELSE NoUser

\* registerUser without the test for an existing username
RegisterUserNoCheck(us, username, display, t) ==
    IF display = "" /\ username = ""
    THEN [error |-> "TypeError", users |-> us, val |-> NoUser]
    ELSE LET u == [id |-> "u_" \o ToString(t), username |-> username,
                   premium |-> FALSE, streak |-> 0] IN
         [error |-> "", users |-> Append(us, u), val |-> u]

\* registerUser({ username, display }) at time t.  With neither a display
\* name nor a first character of the username, username[0].toUpperCase()
\* raises a TypeError before the push.
RegisterUser(us, username, display, t) ==
    IF HasUser(us, username)
    THEN [error |-> "username_taken", users |-> us, val |-> NoUser]
    ELSE IF display = "" /\ username = ""
    THEN [error |-> "TypeError", users |-> us, val |-> NoUser]
    ELSE LET u == [id |-> "u_" \o ToString(t), username |-> username,
                   premium |-> FALSE, streak |-> 0] IN
         [error |-> "", users |-> Append(us, u), val |-> u]

(**********************  the session and the wallet  ***********************)
NoSession == [kind |-> "none", val |-> NoUser]
NoWallet == [kind |-> "none", val |-> 0]

\* safeSet of a value that JSON.parse gives back as it was written: a user,
\* null, a finite number.
SafeSetJson(item, value) ==
    IF storage = "absent"
    THEN [thrown |-> FALSE, item |-> item]
    ELSE LET w == SetItem(item, value) IN
         [thrown |-> FALSE, item |-> w.item]

\* useState(() => safeGet("ml_current_user", null))
StoredUser(item) == SafeGet(item, NoUser).val

\* useState(() => safeGet("ml_wallet_balance", 10))
StoredBalance(item) == SafeGet(item, DemoBalance).val

\* The auth persistence effect, run after currentUser became u.
AuthEffect(item, u) ==
    IF StoredUser(item) # NoUser /\ u = NoUser THEN StoredUser(item) ELSE u

(********************************  Init  ***********************************)
Init ==
    /\ storage \in StorageModes
    /\ lsInsight \in {NoItem, CorruptItem}
    /\ storage = "absent" => lsInsight = NoItem
    /\ base = EmptyState
    /\ now = LoadTime
    /\ posts = SeedPosts
    /\ feed = <<>>
    /\ loading = TRUE
    /\ call = NoCall
    /\ opCount = 0
    /\ raised = FALSE
    /\ tagTotal = [t \in AllTags |-> 0]
    /\ recorded = <<>>
    /\ tagCalls = 0
    /\ alwaysOk = (storage = "ok" /\ lsInsight = NoItem)
    /\ users = SeedUsers
    /\ lsUser = NoSession
    /\ currentUser = StoredUser(lsUser)
    /\ lsWallet = NoWallet
    /\ balance = StoredBalance(lsWallet)
    /\ bought = {}
    /\ base2 = EmptyState
    /\ pending = [i \in Tabs |-> NotPending]
    /\ raced = FALSE

(*******************************  actions  *********************************)
\* Insight.recordTags(tags)
RecordTags(tags) ==
    /\ ~loading
    /\ opCount < MaxOps
    /\ LET r == RecordTagsOn(base, lsInsight, tags) IN
       /\ base' = r.base
       /\ lsInsight' = r.item
       /\ raised' = (raised \/ r.thrown)
    /\ call' = [CallOf("recordTags") EXCEPT !.tags = tags]
    /\ opCount' = opCount + 1
    /\ tagTotal' = Counted(tagTotal, tags)
    /\ tagCalls' = tagCalls + 1
    /\ UNCHANGED << storage, now, posts, feed, loading, recorded, alwaysOk >>
    /\ UNCHANGED acct

\* Insight.recordMood(v)
RecordMood(v) ==
    /\ ~loading
    /\ opCount < MaxOps
    /\ LET r == RecordMoodOn(base, lsInsight, v, now) IN
       /\ base' = r.base
       /\ lsInsight' = r.item
       /\ raised' = (raised \/ r.thrown)
    /\ call' = [CallOf("recordMood") EXCEPT !.v = v]
    /\ opCount' = opCount + 1
    /\ recorded' = Append(recorded, [v |-> v, t |-> now])
    /\ UNCHANGED << storage, now, posts, feed, loading, tagTotal, tagCalls, alwaysOk >>
    /\ UNCHANGED acct

\* Insight.suggest(limit)
SuggestCall(limit) ==
    /\ ~loading
    /\ opCount < MaxOps
    /\ LET r == SuggestOn(base, lsInsight, limit) IN
       /\ raised' = (raised \/ r.thrown)
       /\ call' = [CallOf("suggest") EXCEPT !.limit = limit, !.ret = r.val]
    /\ opCount' = opCount + 1
    /\ UNCHANGED << storage, lsInsight, base, now, posts, feed, loading,
                    tagTotal, recorded, tagCalls, alwaysOk >>
    /\ UNCHANGED acct

\* Insight.dump()
DumpCall ==
    /\ ~loading
    /\ opCount < MaxOps
    /\ raised' = (raised \/ DumpOn(base, lsInsight).thrown)
    /\ call' = CallOf("dump")
    /\ opCount' = opCount + 1
    /\ UNCHANGED << storage, lsInsight, base, now, posts, feed, loading,
                    tagTotal, recorded, tagCalls, alwaysOk >>
    /\ UNCHANGED acct

\* MindLink's mount effect: fetchPosts, then setPosts and setLoading(false).
\* The promises are already settled, so it runs before any click.
LoadFeed ==
    /\ loading
    /\ feed' = FetchPosts(posts)
    /\ loading' = FALSE
    /\ UNCHANGED << storage, lsInsight, base, now, posts, call, opCount,
                    raised, tagTotal, recorded, tagCalls, alwaysOk >>
    /\ UNCHANGED acct

\* Composer.submit (Share): createPost, recordTags, recordMood, then
\* onPostCreated puts the new post first in the displayed feed.  With an
\* issue detected and the confirm dialog declined it returns at once.
Submit(segments, energy, issue, cont) ==
    /\ ~loading
    /\ opCount < MaxOps
    /\ ~(issue /\ ~cont)
    /\ LET p  == NewPost(now)
           tl == TagList(segments)
           r1 == RecordTagsOn(base, lsInsight, tl)
           r2 == RecordMoodOn(r1.base, r1.item, energy, now)
       IN /\ posts' = <<p>> \o posts
          /\ feed' = <<p>> \o feed
          /\ base' = r2.base
          /\ lsInsight' = r2.item
          /\ raised' = (raised \/ r1.thrown \/ r2.thrown)
          /\ call' = [CallOf("submit") EXCEPT !.tags = tl, !.v = energy]
          /\ tagTotal' = Counted(tagTotal, tl)
          /\ tagCalls' = tagCalls + 1
          /\ recorded' = Append(recorded, [v |-> energy, t |-> now])
    /\ opCount' = opCount + 1
    /\ UNCHANGED << storage, now, loading, alwaysOk >>
    /\ UNCHANGED acct

\* MindLink.onLike(id): likePost in the store, then the same on the feed.
Like(id) ==
    /\ ~loading
    /\ opCount < MaxOps
    /\ posts' = LikeIn(posts, id)
    /\ feed' = LikeIn(feed, id)
    /\ call' = [CallOf("like") EXCEPT !.limit = id]
    /\ opCount' = opCount + 1
    /\ UNCHANGED << storage, lsInsight, base, now, loading, raised, tagTotal,
                    recorded, tagCalls, alwaysOk >>
    /\ UNCHANGED acct

\* The environment: the clock advances.
Tick ==
    /\ now < LoadTime + MaxTicks
    /\ now' = now + 1
    /\ call' = NoCall
    /\ UNCHANGED << storage, lsInsight, base, posts, feed, loading,
                    opCount, raised, tagTotal, recorded, tagCalls, alwaysOk >>
    /\ UNCHANGED acct

\* The environment: localStorage starts or stops failing.  Whether the
\* page has a localStorage at all does not change while it is loaded.
SetStorage(m) ==
    /\ storage # "absent"
    /\ m # "absent"
    /\ m # storage
    /\ storage' = m
    /\ alwaysOk' = FALSE
    /\ call' = NoCall
    /\ UNCHANGED << lsInsight, base, now, posts, feed, loading,
                    opCount, raised, tagTotal, recorded, tagCalls >>
    /\ UNCHANGED acct

\* The environment: the stored text is no longer JSON.
CorruptBlob ==
    /\ storage # "absent"
    /\ lsInsight.kind = "json"
    /\ lsInsight' = CorruptItem
    /\ alwaysOk' = FALSE
    /\ call' = NoCall
    /\ UNCHANGED << storage, base, now, posts, feed, loading,
                    opCount, raised, tagTotal, recorded, tagCalls >>
    /\ UNCHANGED acct

\* The Insight engine, its callers and the storage it runs on.
Next ==
    \/ \E tags \in TagLists : RecordTags(tags)
    \/ \E v \in MoodInputs : RecordMood(v)
    \/ \E limit \in 0..MaxLimit : SuggestCall(limit)
    \/ DumpCall
    \/ LoadFeed
    \/ \E segments \in RawTagTexts, energy \in Energies,
          issue \in BOOLEAN, cont \in BOOLEAN :
            Submit(segments, energy, issue, cont)
    \/ \E m \in StorageModes : SetStorage(m)
    \/ CorruptBlob

Spec == Init /\ [][Next]_vars

\* The post store and the displayed feed.
FeedNext ==
    \/ LoadFeed
    \/ \E segments \in RawTagTexts, energy \in Energies,
          issue \in BOOLEAN, cont \in BOOLEAN :
            Submit(segments, energy, issue, cont)
    \/ \E i \in 1..Len(feed) : Like(feed[i].id)
    \/ Tick

FeedSpec == Init /\ [][FeedNext]_vars

(***************************************************************************)
(*                               Claims                                    *)
(***************************************************************************)
\* The step is the return of operation op.
Called(op) == opCount' = opCount + 1 /\ call'.op = op

ReadFallsBack ==
    \/ storage \in {"absent", "readThrows"}
    \/ lsInsight.kind \in {"none", "corrupt"}

JsonMood(mood) ==
    [i \in 1..Len(mood) |-> [v |-> JsonValue(mood[i].v), t |-> mood[i].t]]

InMood(mood, v, t) ==
    \E i \in 1..Len(mood) : JsonValue(mood[i].v) = JsonValue(v) /\ mood[i].t = t

C2_SampleKeptWhenWriteThrows ==
    [][ (Called("recordMood") /\ storage = "writeThrows")
          => InMood(Dump'.mood, call'.v, now) ]_vars

\* C3: the retained mood samples never exceed the retention bound and are
\* exactly the most recent min(n, bound) samples passed to recordMood, in
\* recording order.
C3_MoodIsLastRecorded ==
    /\ Len(Dump.mood) <= MoodCap
    /\ JsonMood(Dump.mood) = JsonMood(LastN(recorded, MoodCap))

\* C4: with working storage, the count stored for each tag is the number
\* of times the tag appeared in the tag lists recorded (counting the
\* repetitions within one list), and a tag never recorded has no entry.
C4_TagCounts ==
    alwaysOk =>
        /\ \A t \in AllTags : CountOf(lsInsight.val.tags, t) = tagTotal[t]
        /\ \A t \in AllTags : CountOf(Dump.tags, t) = tagTotal[t]
        /\ \A i \in 1..Len(Dump.tags) : Dump.tags[i].n >= 1
        /\ \A i, j \in 1..Len(Dump.tags) :
              Dump.tags[i].k = Dump.tags[j].k => i = j

\* C4 witness: a tag recorded by two calls, twice within each.
C4_Witness ==
    /\ alwaysOk
    /\ tagCalls >= 2
    /\ tagTotal["focus"] = 4
    /\ CountOf(Dump.tags, "focus") = 4

SuggestionsOk(tags, limit, r) ==
    /\ Len(r) = Min(limit, Len(tags))
    /\ \A i, j \in 1..Len(r) : r[i] = r[j] => i = j
    /\ \A i \in 1..Len(r) : HasTag(tags, r[i])
    /\ \A i \in 1..Len(r) - 1 : CountOf(tags, r[i]) >= CountOf(tags, r[i + 1])
    /\ \A e \in {tags[i] : i \in 1..Len(tags)} :
          (\A i \in 1..Len(r) : r[i] # e.k)
             => \A i \in 1..Len(r) : e.n <= CountOf(tags, r[i])
    /\ limit = 0 => r = <<>>

\* C5: suggest(limit) returns min(limit, number of distinct tags) distinct
\* tags in descending order of count, no tag left out has a larger count
\* than one returned, suggest(0) is empty, and recordTags(["focus",
\* "focus", "mindful"]) on an empty state is followed by suggest(1) =
\* ["focus"].
C5_Suggest ==
    /\ [](/\ \A limit \in 0..MaxLimit : SuggestionsOk(Dump.tags, limit, Suggest(limit))
          /\ call.op = "suggest" => SuggestionsOk(Dump.tags, call.limit, call.ret))
    /\ [][ (/\ Called("recordTags")
            /\ call'.tags = <<"focus", "focus", "mindful">>
            /\ Dump = EmptyState)
             => Suggest(1)' = <<"focus">> ]_vars

\* C5 witness: suggest(1) has returned ["focus"] after focus was recorded
\* twice and mindful once, with a third tag present.
C5_Witness ==
    /\ call.op = "suggest"
    /\ call.limit = 1
    /\ call.ret = <<"focus">>
    /\ Len(Dump.tags) = 3
    /\ CountOf(Dump.tags, "focus") = 2

NonNumeric == {"abc"}

\* C6: recordMood with a non-numeric value changes nothing: the state read
\* back, the stored text and the in-memory fallback are as before the call.
C6_NonNumericIgnored ==
    [][ (Called("recordMood") /\ call'.v \in NonNumeric)
          => (Dump' = Dump /\ lsInsight' = lsInsight /\ base' = base) ]_vars

Blank(list) == \A i \in 1..Len(list) : list[i] \in {"", " "}

\* C7 as stated: recordTags with an empty tag list, or with blank tags
\* only, leaves the whole Insight state unchanged.
C7_BlankIsNoOp ==
    [][ (Called("recordTags") /\ Blank(call'.tags))
          => (Dump' = Dump /\ lsInsight' = lsInsight) ]_vars

\* C7 as amended: recordTags with an empty tag list changes no tag count
\* and no mood sample (up to a NaN value being stored as null), and raises
\* engages by one (seen whenever the write is not lost); a blank string
\* passed to recordTags is counted like any tag; Composer.submit trims its tags and drops the empty ones, so that
\* no blank tag reaches recordTags from the composer.
C7_EmptyKeepsTagsAndMood ==
    /\ [][ (Called("recordTags") /\ call'.tags = <<>>)
             => /\ Dump'.tags = Dump.tags
                /\ JsonMood(Dump'.mood) = JsonMood(Dump.mood)
                /\ Dump'.engages \in {Dump.engages, Dump.engages + 1}
                /\ alwaysOk => /\ Dump'.engages = Dump.engages + 1
                               /\ lsInsight'.kind = "json" ]_vars
    /\ [][ (Called("recordTags") /\ call'.tags = <<" ">> /\ alwaysOk)
             => CountOf(Dump'.tags, " ") = CountOf(Dump.tags, " ") + 1 ]_vars
    /\ [][ Called("submit")
             => /\ \A i \in 1..Len(call'.tags) : call'.tags[i] \notin {"", " "}
                /\ \A t \in {"", " "} :
                      CountOf(Dump'.tags, t) = CountOf(Dump.tags, t)
                /\ call'.tags = <<>> => Dump'.tags = Dump.tags ]_vars

\* C7 witness: with working storage, recordTags([]) has returned after a
\* tag and a mood sample were recorded, and only engages has moved on.
C7_Witness ==
    /\ call.op = "recordTags"
    /\ call.tags = <<>>
    /\ alwaysOk
    /\ Dump.tags # <<>>
    /\ Dump.mood # <<>>
    /\ Dump.engages = tagCalls
    /\ tagCalls >= 2

\* C8: with working storage, between operations the stored blob is the
\* state the session observes, and it holds every mutation made so far:
\* nothing was recorded that is not written.
C8_WrittenBack ==
    alwaysOk =>
        IF tagCalls = 0 /\ recorded = <<>>
        THEN lsInsight = NoItem /\ Dump = EmptyState
        ELSE /\ lsInsight.kind = "json"
             /\ lsInsight.val = Dump
             /\ lsInsight.val.engages = tagCalls
             /\ lsInsight.val.mood = JsonMood(LastN(recorded, MoodCap))
             /\ \A t \in AllTags : CountOf(lsInsight.val.tags, t) = tagTotal[t]

\* C8 witness: recordMood and recordTags have both written, the last of
\* them a recordMood of NaN, which is stored as null.
C8_Witness ==
    /\ alwaysOk
    /\ tagCalls >= 1
    /\ call.op = "recordMood"
    /\ call.v = "NaN"
    /\ Len(lsInsight.val.mood) >= 2

(**************************  the feed (FeedSpec)  **************************)
\* Twice the score of the ranking rule, with the clock in half hours:
\* score = boosts * 20 + likes * 1.5 + max(0, 48 - ageHours) * 2.  A post
\* of the store has no boosts.
Score2(p, t) == 3 * p.likes + 2 * Max(0, 96 - (t - p.createdAt))

ExampleA == [id |-> 3, likes |-> 0, createdAt |-> LoadTime - 2]
ExampleB == [id |-> 4, likes |-> 10, createdAt |-> LoadTime - 94]

C10_DistinctIds ==
    \A i, j \in 1..Len(posts) : posts[i].id = posts[j].id => i = j

(*********************  the post store (StoreSpec)  ************************)
\* MockService.createPost(payload), called on its own.
CreatePostCall(payload) ==
    /\ opCount < MaxOps
    /\ posts' = <<CreatePost(payload, now)>> \o posts
    /\ call' = [CallOf("createPost") EXCEPT !.limit = payload.likes]
    /\ opCount' = opCount + 1
    /\ UNCHANGED << storage, lsInsight, base, now, feed, loading, raised,
                    tagTotal, recorded, tagCalls, alwaysOk >>
    /\ UNCHANGED acct

\* MockService.likePost(id), called on its own.
LikePostCall(id) ==
    /\ opCount < MaxOps
    /\ posts' = LikeIn(posts, id)
    /\ call' = [CallOf("likePost") EXCEPT !.limit = id]
    /\ opCount' = opCount + 1
    /\ UNCHANGED << storage, lsInsight, base, now, feed, loading, raised,
                    tagTotal, recorded, tagCalls, alwaysOk >>
    /\ UNCHANGED acct

\* The identifiers a caller can pass: those of the posts and one of no post.
LikeIds == {posts[i].id : i \in 1..Len(posts)} \cup {0}

StoreNext ==
    \/ \E payload \in Payloads : CreatePostCall(payload)
    \/ \E id \in LikeIds : LikePostCall(id)
    \/ Tick

StoreSpec == Init /\ [][StoreNext]_vars

\* The post that was k-th from the end of the store.
FromEnd(ps, k) == ps[Len(ps) - k]

\* C11: over createPost and likePost, a post stays in the store with its
\* id and createdAt and its likes never decrease; likePost(id) adds exactly
\* 1 to the likes of a post with that id and changes no other post nor the
\* number of posts; createPost adds one post, with likes 0 whatever the
\* payload carries, and changes no other post.
C11_PostsKept ==
    /\ [][ /\ Len(posts') >= Len(posts)
           /\ \A k \in 0..(Len(posts) - 1) :
                 /\ FromEnd(posts', k).id = FromEnd(posts, k).id
                 /\ FromEnd(posts', k).createdAt = FromEnd(posts, k).createdAt
                 /\ FromEnd(posts', k).likes >= FromEnd(posts, k).likes ]_vars
    /\ [][ Called("likePost")
             => /\ Len(posts') = Len(posts)
                /\ \A i \in 1..Len(posts) :
                      IF posts[i].id = call'.limit
                      THEN posts'[i] = [posts[i] EXCEPT !.likes = posts[i].likes + 1]
                      ELSE posts'[i] = posts[i] ]_vars
    /\ [][ Called("createPost")
             => /\ Len(posts') = Len(posts) + 1
                /\ posts'[1].likes = 0
                /\ posts'[1].createdAt = now
                /\ Tail(posts') = posts ]_vars

\* C11 witness: a post created from a payload carrying 7 likes has been
\* liked once and is still in the store, behind a later post.
C11_Witness ==
    /\ call.op = "likePost"
    /\ Len(posts) = 4
    /\ posts[2].id = call.limit
    /\ posts[2].likes = 1
    /\ posts[1].likes = 0
    /\ posts[1].id # posts[2].id

(**********************  the account (AccountSpec)  ************************)
\* What the account steps leave alone.
insightFrame == << lsInsight, tagTotal, recorded, tagCalls, alwaysOk,
                   raised, base2, pending, raced >>

\* handleAuthSuccess(u) after safeSet("ml_current_user", u): the main view
\* is rendered and WalletPanel mounts, reading its balance from storage.
SignIn(u) ==
    /\ lsUser' = SafeSetJson(lsUser, u).item
    /\ currentUser' = AuthEffect(lsUser', u)
    /\ balance' = StoredBalance(lsWallet)

\* AuthView.tryLogin with `typed` in the username field
TryLogin(typed) ==
    /\ currentUser = NoUser
    /\ opCount < MaxClicks
    /\ opCount' = opCount + 1
    /\ LET name == Trim(typed) IN
       IF name = ""
       THEN /\ call' = [CallOf("tryLogin") EXCEPT !.v = "Enter username"]
            /\ UNCHANGED << lsUser, currentUser, balance >>
       ELSE IF ~HasUser(users, name)
       THEN /\ call' = [CallOf("tryLogin") EXCEPT !.v = "No user found"]
            /\ UNCHANGED << lsUser, currentUser, balance >>
       ELSE /\ call' = CallOf("tryLogin")
            /\ SignIn(GetUserByUsername(users, name))
    /\ UNCHANGED << storage, base, now, posts, feed, loading, users,
                    lsWallet, bought >>
    /\ UNCHANGED insightFrame

\* AuthView.tryRegister with `typed` and `display` in the two fields
TryRegister(typed, display) ==
    /\ currentUser = NoUser
    /\ opCount < MaxClicks
    /\ opCount' = opCount + 1
    /\ LET name == Trim(typed) IN
       IF name = ""
       THEN /\ call' = [CallOf("tryRegister") EXCEPT !.v = "Enter username"]
            /\ UNCHANGED << users, lsUser, currentUser, balance >>
       ELSE LET r == RegisterUser(users, name,
                                  IF display = "" THEN name ELSE display,
                                  now) IN
            /\ users' = r.users
            /\ IF r.error = "username_taken"
               THEN /\ call' = [CallOf("tryRegister")
                                  EXCEPT !.v = "Username already taken"]
                    /\ UNCHANGED << lsUser, currentUser, balance >>
               ELSE IF r.error # ""
               THEN /\ call' = [CallOf("tryRegister")
                                  EXCEPT !.v = "Registration failed"]
                    /\ UNCHANGED << lsUser, currentUser, balance >>
               ELSE /\ call' = CallOf("tryRegister")
                    /\ SignIn(r.val)
    /\ UNCHANGED << storage, base, now, posts, feed, loading, lsWallet,
                    bought >>
    /\ UNCHANGED insightFrame

\* MockService.registerUser({ username, display }) called directly
RegisterUserCall(username, display) ==
    /\ opCount < MaxClicks
    /\ opCount' = opCount + 1
    /\ LET r == RegisterUser(users, username, display, now) IN
       /\ users' = r.users
       /\ call' = [CallOf("registerUser")
                     EXCEPT !.tags = <<username>>, !.v = r.error]
    /\ UNCHANGED << storage, base, now, posts, feed, loading, lsUser,
                    currentUser, balance, lsWallet, bought >>
    /\ UNCHANGED insightFrame

\* The Logout button, and the auth persistence effect that follows it.
\* When the effect signs the stored user in again, WalletPanel remounts.
Logout ==
    /\ currentUser # NoUser
    /\ opCount < MaxClicks
    /\ opCount' = opCount + 1
    /\ lsUser' = SafeSetJson(lsUser, NoUser).item
    /\ currentUser' = AuthEffect(lsUser', NoUser)
    /\ balance' = IF currentUser' # NoUser
                  THEN StoredBalance(lsWallet) ELSE balance
    /\ call' = CallOf("logout")
    /\ UNCHANGED << storage, base, now, posts, feed, loading, users,
                    lsWallet, bought >>
    /\ UNCHANGED insightFrame

\* WalletPanel.buyPremium without the test of the balance
BuyPremiumNoTest(b) == [ok |-> TRUE, balance |-> b - PremiumCost]

\* WalletPanel.buyPremium on a balance b
BuyPremium(b) ==
    IF b < PremiumCost
    THEN [ok |-> FALSE, balance |-> b]
    ELSE [ok |-> TRUE, balance |-> b - PremiumCost]

\* The Buy Premium button, with onPurchase of MindLink
BuyPremiumClick ==
    /\ currentUser # NoUser
    /\ opCount < MaxClicks
    /\ opCount' = opCount + 1
    /\ LET r == BuyPremium(balance) IN
       IF ~r.ok
       THEN /\ call' = [CallOf("buyPremium") EXCEPT !.v = "Not enough balance"]
            /\ UNCHANGED << balance, lsWallet, currentUser, bought >>
       ELSE /\ call' = CallOf("buyPremium")
            /\ balance' = r.balance
            /\ lsWallet' = SafeSetJson(lsWallet, r.balance).item
            /\ currentUser' = [currentUser EXCEPT !.premium = TRUE]
            /\ bought' = bought \cup {currentUser.id}
    /\ UNCHANGED << storage, base, now, posts, feed, loading, users, lsUser >>
    /\ UNCHANGED insightFrame

\* The Top up button
TopUp ==
    /\ currentUser # NoUser
    /\ opCount < MaxClicks
    /\ opCount' = opCount + 1
    /\ balance' = balance + TopUpAmount
    /\ lsWallet' = SafeSetJson(lsWallet, balance').item
    /\ call' = CallOf("topUp")
    /\ UNCHANGED << storage, base, now, posts, feed, loading, users, lsUser,
                    currentUser, bought >>
    /\ UNCHANGED insightFrame

\* The page is loaded again: the module state is built anew and the React
\* state is initialised from localStorage.
Reload ==
    /\ opCount < MaxClicks
    /\ opCount' = opCount + 1
    /\ users' = SeedUsers
    /\ posts' = [i \in 1..Len(SeedPosts) |->
                   [SeedPosts[i] EXCEPT !.createdAt = @ + (now - LoadTime)]]
    /\ base' = SafeGet(lsInsight, EmptyState).val
    /\ currentUser' = StoredUser(lsUser)
    /\ balance' = IF currentUser' # NoUser
                  THEN StoredBalance(lsWallet) ELSE balance
    /\ feed' = <<>>
    /\ loading' = TRUE
    /\ call' = CallOf("reload")
    /\ UNCHANGED << storage, now, lsUser, lsWallet, bought >>
    /\ UNCHANGED insightFrame

AccountNext ==
    \/ \E typed \in TypedNames : TryLogin(typed)
    \/ \E typed \in TypedNames, display \in Displays : TryRegister(typed, display)
    \/ \E username \in Usernames, display \in Displays :
           RegisterUserCall(username, display)
    \/ Logout
    \/ BuyPremiumClick
    \/ TopUp
    \/ Reload
    \/ Tick
    \/ \E m \in StorageModes : SetStorage(m)

AccountSpec == Init /\ [][AccountNext]_vars

\* C12: once the current user has become premium by a purchase, no later
\* logout, login as the same user or reload from the persisted session
\* shows that user as non-premium.
C12_PremiumKept ==
    (currentUser # NoUser /\ currentUser.id \in bought) => currentUser.premium

\* C14: registerUser keeps usernames unique.  A call with a username that
\* exists already fails with username_taken and leaves the list of users
\* as it was; a successful call adds exactly one user, with that username,
\* premium false and streak 0; no two users ever share a username.
C14_UsernamesUnique ==
    [][ /\ \A i, j \in 1..Len(users') :
              i # j => users'[i].username # users'[j].username
        /\ (Called("registerUser") /\ HasUser(users, call'.tags[1]))
              => (call'.v = "username_taken" /\ users' = users)
        /\ (Called("registerUser") /\ call'.v = "")
              => /\ Len(users') = Len(users) + 1
                 /\ SubSeq(users', 1, Len(users)) = users
                 /\ users'[Len(users')].username = call'.tags[1]
                 /\ users'[Len(users')].premium = FALSE
                 /\ users'[Len(users')].streak = 0 ]_vars

\* "neo" was registered, and registering "neo" again has just failed.
C14_Witness ==
    /\ call.op = "registerUser"
    /\ call.tags = <<"neo">>
    /\ call.v = "username_taken"
    /\ Len(users) = Len(SeedUsers) + 1
    /\ users[Len(users)].username = "neo"

\* The wallet buttons.
WalletAction == Called("buyPremium") \/ Called("topUp")

\* setItem is there and does not throw.
WriteWorks == storage \in {"ok", "readThrows"}

\* What the steps of the wallet do to the balance and to the premium flag.
WalletSteps ==
    /\ balance' >= 0
    /\ (Called("buyPremium") /\ balance < 5)
          => (balance' = balance /\ currentUser' = currentUser)
    /\ (Called("buyPremium") /\ balance >= 5)
          => (balance' = balance - 5 /\ currentUser'.premium)
    /\ Called("topUp") => balance' = balance + 10

\* C15 as stated: the balance is never negative, Buy Premium below 5
\* changes neither the balance nor the premium flag, a successful purchase
\* lowers the balance by exactly 5, Top up raises it by exactly 10, and
\* after each action the persisted ml_wallet_balance equals the balance
\* displayed.
C15_PersistedEqualsDisplayed ==
    [][ /\ WalletSteps
        /\ WalletAction
              => (lsWallet'.kind = "json" /\ lsWallet'.val = balance') ]_vars

\* C15 amended: the same for the balance and the premium flag; the
\* persisted balance equals the displayed one after each action that
\* changes the balance while setItem works, and keeps its old value when
\* localStorage is absent or setItem throws.
C15_Wallet ==
    [][ /\ WalletSteps
        /\ (WalletAction /\ WriteWorks /\ balance' # balance)
              => (lsWallet'.kind = "json" /\ lsWallet'.val = balance')
        /\ (WalletAction /\ (~WriteWorks \/ balance' = balance))
              => lsWallet' = lsWallet ]_vars

\* Two purchases emptied the wallet, the second one while setItem threw,
\* and a third Buy Premium has just been refused.
C15_Witness ==
    /\ call.op = "buyPremium"
    /\ call.v = "Not enough balance"
    /\ balance = 0
    /\ lsWallet.kind = "json"
    /\ lsWallet.val = 5
    /\ currentUser.premium

(***************************  two tabs (TabsSpec)  **************************)
\* Two tabs of one browser run the page on the same localStorage, each with
\* its own Insight.  getItem and setItem are atomic; nothing makes the
\* getItem and the setItem of one recordTags call atomic together.
BaseOf(i) == IF i = 1 THEN base ELSE base2

\* recordTags(tags) in tab i, up to localStorage.getItem(KEY) in safeGet
TabRead(i, tags) ==
    /\ ~pending[i].busy
    /\ opCount + Cardinality({j \in Tabs : pending[j].busy}) < MaxOps
    /\ pending' = [pending EXCEPT
                     ![i] = [busy |-> TRUE, item |-> lsInsight, tags |-> tags]]
    /\ raced' = (raced \/ \E j \in Tabs : pending[j].busy)
    /\ UNCHANGED << storage, lsInsight, base, now, posts, feed, loading,
                    call, opCount, raised, tagTotal, recorded, tagCalls,
                    alwaysOk, users, currentUser, lsUser, balance, lsWallet,
                    bought, base2 >>

\* The rest of that call: JSON.parse of what was read, the forEach, the
\* engages counter and safeSet(KEY, s).
TabWrite(i) ==
    /\ pending[i].busy
    /\ LET r == RecordTagsOn(BaseOf(i), pending[i].item, pending[i].tags) IN
       /\ lsInsight' = SafeSet(lsInsight, r.s).item
       /\ base' = IF i = 1 THEN r.base ELSE base
       /\ base2' = IF i = 2 THEN r.base ELSE base2
       /\ raised' = (raised \/ r.thrown)
    /\ call' = [CallOf("recordTags") EXCEPT !.tags = pending[i].tags]
    /\ opCount' = opCount + 1
    /\ tagTotal' = Counted(tagTotal, pending[i].tags)
    /\ tagCalls' = tagCalls + 1
    /\ pending' = [pending EXCEPT ![i] = NotPending]
    /\ UNCHANGED << storage, now, posts, feed, loading, recorded, alwaysOk,
                    users, currentUser, lsUser, balance, lsWallet, bought,
                    raced >>

TabsNext ==
    \/ \E i \in Tabs, tags \in TagLists : TabRead(i, tags)
    \/ \E i \in Tabs : TabWrite(i)

TabsSpec == Init /\ [][TabsNext]_vars

\* The tab whose recordTags call ends in this step.
Writer(i) == Called("recordTags") /\ pending[i].busy /\ ~pending'[i].busy

Idle == \A i \in Tabs : ~pending[i].busy

\* C13: with working storage shared by two tabs the last writer wins.  The
\* blob a call writes holds the counts that call read plus its own tags,
\* whatever was written in between; so the persisted count of a tag never
\* exceeds the number of times it was recorded in both tabs, and equals it
\* as long as no two calls have overlapped.
C13_LastWriterWins ==
    [][ alwaysOk =>
          /\ \A i \in Tabs : Writer(i) =>
                \A t \in AllTags :
                    CountOf(lsInsight'.val.tags, t) =
                        CountOf(SafeGet(pending[i].item, BaseOf(i)).val.tags, t)
                        + Occurrences(pending[i].tags, t)
          /\ \A t \in AllTags : CountOf(lsInsight'.val.tags, t) <= tagTotal'[t]
          /\ (~raced' /\ Idle') =>
                \A t \in AllTags : CountOf(lsInsight'.val.tags, t) = tagTotal'[t]
      ]_vars

\* Both tabs recorded "mindful" once, in overlapping calls, and the blob
\* left in storage counts it once.
C13_Witness ==
    /\ alwaysOk
    /\ Idle
    /\ raced
    /\ tagCalls = 2
    /\ tagTotal["mindful"] = 2
    /\ lsInsight.kind = "json"
    /\ CountOf(lsInsight.val.tags, "mindful") = 1
    /\ CountOf(base.tags, "mindful") = 1
    /\ CountOf(base2.tags, "mindful") = 1

====
